---- MODULE Spec2Model ----
(***************************************************************************)
(* Model of src/src/services/api/sora.ts: the Sora2API client              *)
(* (SoraApiClient, the exported singleton soraApiClient), soraConfigApi    *)
(* (getConfig, saveConfig over localStorage, and the composite             *)
(* testConnection) and the page SoraPage.                                  *)
(*                                                                         *)
(* Specifications: Spec, the client called by any caller; SpecUrl,         *)
(* setBaseUrl over every string; SpecStore, getConfig and saveConfig with  *)
(* JSON.stringify and JSON.parse computed character by character;          *)
(* SpecPage, the page's triggers and the network; SpecLive, the page under *)
(* fair delivery of responses.                                             *)
(*                                                                         *)
(* A string is a sequence of one-character strings.  Every asynchronous    *)
(* call runs in a task; a task's step is the code between two awaits that  *)
(* wait for the network: the part that sends a request, and the part that  *)
(* handles its response up to the next request or the return.  The remote  *)
(* service is the environment: each response is chosen from every outcome  *)
(* fetch() and response.json() can produce.                                *)
(*                                                                         *)
(* Messages of testConnection are written in ASCII:                        *)
(*   MsgUnavailable  line 165, the message containing "bu ke yong"         *)
(*   MsgLoginFailed  line 171, the message containing "deng lu shi bai"    *)
(*   MsgConnected    line 179                                              *)
(***************************************************************************)
EXTENDS Integers, Sequences, FiniteSets, TLC

\* ---------------------------------------------------------------- bounds
MaxUrlLen == 4
NumTasks == 2
NumTokenIds == 2
MaxStrLen == 2

\* ---------------------------------------------------------------- inputs
Chars == {"h", ":", "/"}

RECURSIVE SeqsUpTo(_, _)
SeqsUpTo(S, n) ==
  IF n = 0 THEN {<<>>}
  ELSE LET shorter == SeqsUpTo(S, n - 1)
       IN  shorter \cup {Append(s, c) : s \in {t \in shorter : Len(t) = n - 1}, c \in S}

\* Every string up to MaxUrlLen: the arguments of setBaseUrl under SpecUrl.
AllUrls == SeqsUpTo(Chars, MaxUrlLen)
\* The base URLs configured under Spec: two services, one written both ways.
Urls == {<<"h">>, <<"h", "/">>, <<":">>}
Tasks == 1..NumTasks
Usernames == {<<"a">>}
Passwords == {<<"a">>, <<"\"">>}
\* The strings a configuration field is given under SpecStore: they contain
\* the characters JSON escapes.
ConfigStrings == SeqsUpTo({"a", "\"", "\\"}, MaxStrLen)

\* ---------------------------------------------------------------- values
\* this.token: string | null.  A token is the opaque string of a login
\* response; the model writes it as the base URL of the service that issued
\* it and a number.  Null also stands for a missing or empty (falsy) token.
Null == [issuer |-> <<>>, id |-> 0]
Token(base, n) == [issuer |-> base, id |-> n]

PathHealth == "/"
PathLogin == "/api/login"
PathStats == "/api/stats"
PathTokens == "/api/tokens"

MsgUnavailable == "Sora2API service unavailable"
MsgLoginFailed == "login failed, check username and password"
MsgConnected == "connected"
\* Line 183, `连接失败: ${error}`, and line 250, '正在连接...'.
MsgError == "connection failed: error"
MsgTesting == "connecting"

NoReq == [path |-> "none", base |-> <<>>, auth |-> Null, username |-> <<>>, password |-> <<>>]
NoResult == [ret |-> "none", success |-> FALSE, message |-> "", stats |-> "undefined"]
\* A task: the call it runs (op), where it waits (pc), its arguments, the
\* request it waits on, the locals healthy, loggedIn and stats of
\* testConnection, and its result.  History fields: sent, the paths it has requested, and
\* loginVia, how its login response arrived ("throw", "2xx", "non2xx").
\* caller: the page function that awaits the call, "test" (testConnection
\* alone) or "save" (saveConfig); "none": another caller.
\* For a call made by the page, history: url, the baseUrl of the configuration
\* it tests, and statsBefore, the snapshot the page holds was set before the
\* call started.
IdleTask == [op |-> "none", pc |-> "idle", username |-> <<>>, password |-> <<>>,
             req |-> NoReq, healthy |-> "unset", loggedIn |-> "unset", stats |-> "unset",
             result |-> NoResult, sent |-> {}, loginVia |-> "none", caller |-> "none",
             url |-> <<>>, statsBefore |-> FALSE]

VARIABLES
  baseUrl,     \* SoraApiClient.baseUrl
  token,       \* SoraApiClient.token
  task,        \* the calls in flight and their results
  lastUrl,     \* history: the argument of the last setBaseUrl
  loginStored, \* history: the token of the last login that returned true
  storage,     \* localStorage: the item 'sora_config'
  cfgCall,     \* the last call of getConfig / saveConfig and what it returned
  page         \* the state of SoraPage

clientVars == <<baseUrl, token, task, lastUrl, loginStored>>
pageVars == <<storage, cfgCall, page>>
vars == <<baseUrl, token, task, lastUrl, loginStored, storage, cfgCall, page>>

\* No setBaseUrl yet; no argument of setBaseUrl is this long.
NoUrl == [k \in 1..(MaxUrlLen + 1) |-> "?"]

\* ---------------------------------------------------------------- JSON
\* A JavaScript value of a configuration field: t is its type, s the
\* characters of a string or the digits of a number, b a boolean.
Undef == [t |-> "undefined", s |-> <<>>, b |-> FALSE]
NullV == [t |-> "null", s |-> <<>>, b |-> FALSE]
Str(s) == [t |-> "string", s |-> s, b |-> FALSE]
BoolV(b) == [t |-> "boolean", s |-> <<>>, b |-> b]
NumV(d) == [t |-> "number", s |-> d, b |-> FALSE]

\* A value read from or written to the store: an object with the fields of
\* SoraConfig (a missing field is undefined), or a primitive.
Obj(e, u, a, p) ==
  [t |-> "object", s |-> <<>>, b |-> FALSE,
   enabled |-> e, baseUrl |-> u, adminUser |-> a, adminPass |-> p]
Prim(v) ==
  [t |-> v.t, s |-> v.s, b |-> v.b,
   enabled |-> Undef, baseUrl |-> Undef, adminUser |-> Undef, adminPass |-> Undef]
JsNull == Prim(NullV)

\* JavaScript truthiness of such a value.
TruthyV(v) ==
  CASE v.t = "undefined" -> FALSE
    [] v.t = "null" -> FALSE
    [] v.t = "boolean" -> v.b
    [] v.t = "string" -> v.s # <<>>
    [] v.t = "number" -> v.s # <<"0">>
    [] OTHER -> TRUE

KeyEnabled == <<"e", "n", "a", "b", "l", "e", "d">>
KeyBaseUrl == <<"b", "a", "s", "e", "U", "r", "l">>
KeyAdminUser == <<"a", "d", "m", "i", "n", "U", "s", "e", "r">>
KeyAdminPass == <<"a", "d", "m", "i", "n", "P", "a", "s", "s">>
LitNull == <<"n", "u", "l", "l">>
LitTrue == <<"t", "r", "u", "e">>
LitFalse == <<"f", "a", "l", "s", "e">>
Digits == {"0", "1", "2", "3", "4", "5", "6", "7", "8", "9"}
Quote == "\""
Backslash == "\\"

\* JSON.stringify of a string: quoted, with quote and backslash escaped.
RECURSIVE JsonEscape(_)
JsonEscape(s) ==
  IF s = <<>> THEN <<>>
  ELSE (IF Head(s) \in {Quote, Backslash} THEN <<Backslash, Head(s)>> ELSE <<Head(s)>>)
       \o JsonEscape(Tail(s))

JsonQuote(s) == <<Quote>> \o JsonEscape(s) \o <<Quote>>

\* JSON.stringify of a field value ("undefined" is handled by the caller).
StringifyValue(v) ==
  CASE v.t = "string" -> JsonQuote(v.s)
    [] v.t = "boolean" -> IF v.b THEN LitTrue ELSE LitFalse
    [] v.t = "number" -> v.s
    [] OTHER -> LitNull

\* One member of an object; a field that is undefined is left out.
Member(key, v) ==
  IF v.t = "undefined" THEN <<>> ELSE <<JsonQuote(key) \o <<":">> \o StringifyValue(v)>>

RECURSIVE JoinMembers(_)
JoinMembers(ms) ==
  IF ms = <<>> THEN <<>>
  ELSE IF Len(ms) = 1 THEN ms[1]
  ELSE ms[1] \o <<",">> \o JoinMembers(Tail(ms))

\* JSON.stringify(config), line 146.
JSONstringify(v) ==
  IF v.t = "object"
  THEN <<"{">>
       \o JoinMembers(Member(KeyEnabled, v.enabled) \o Member(KeyBaseUrl, v.baseUrl)
                      \o Member(KeyAdminUser, v.adminUser) \o Member(KeyAdminPass, v.adminPass))
       \o <<"}">>
  ELSE StringifyValue(v)

StartsWith(t, i, w) == i + Len(w) - 1 <= Len(t) /\ SubSeq(t, i, i + Len(w) - 1) = w

ParseFail == [ok |-> FALSE, v |-> Undef, next |-> 0]

\* The characters of a JSON string from position j (after the opening quote)
\* up to its closing quote.
RECURSIVE ScanString(_, _, _)
ScanString(t, j, acc) ==
  IF j > Len(t) THEN ParseFail
  ELSE IF t[j] = Quote THEN [ok |-> TRUE, v |-> Str(acc), next |-> j + 1]
  ELSE IF t[j] = Backslash
  THEN IF j + 1 <= Len(t) /\ t[j + 1] \in {Quote, Backslash}
       THEN ScanString(t, j + 2, Append(acc, t[j + 1]))
       ELSE ParseFail
  ELSE ScanString(t, j + 1, Append(acc, t[j]))

\* A string, a literal or a one-digit number at position i.
ParseValue(t, i) ==
  IF i > Len(t) THEN ParseFail
  ELSE IF t[i] = Quote THEN ScanString(t, i + 1, <<>>)
  ELSE IF StartsWith(t, i, LitNull) THEN [ok |-> TRUE, v |-> NullV, next |-> i + 4]
  ELSE IF StartsWith(t, i, LitTrue) THEN [ok |-> TRUE, v |-> BoolV(TRUE), next |-> i + 4]
  ELSE IF StartsWith(t, i, LitFalse) THEN [ok |-> TRUE, v |-> BoolV(FALSE), next |-> i + 5]
  ELSE IF t[i] \in Digits THEN [ok |-> TRUE, v |-> NumV(<<t[i]>>), next |-> i + 1]
  ELSE ParseFail

SetField(obj, key, v) ==
  IF key = KeyEnabled THEN [obj EXCEPT !.enabled = v]
  ELSE IF key = KeyBaseUrl THEN [obj EXCEPT !.baseUrl = v]
  ELSE IF key = KeyAdminUser THEN [obj EXCEPT !.adminUser = v]
  ELSE IF key = KeyAdminPass THEN [obj EXCEPT !.adminPass = v]
  ELSE obj

\* The members of an object from position i: "key":value, separated by
\* commas, closed by a brace.
RECURSIVE ParseMembers(_, _, _)
ParseMembers(t, i, obj) ==
  IF i > Len(t) \/ t[i] # Quote THEN [ok |-> FALSE, v |-> obj, next |-> 0]
  ELSE LET k == ScanString(t, i + 1, <<>>)
       IN  IF ~k.ok \/ k.next > Len(t) \/ t[k.next] # ":" THEN [ok |-> FALSE, v |-> obj, next |-> 0]
           ELSE LET m == ParseValue(t, k.next + 1)
                IN  IF ~m.ok \/ m.next > Len(t) THEN [ok |-> FALSE, v |-> obj, next |-> 0]
                    ELSE IF t[m.next] = "}"
                    THEN [ok |-> TRUE, v |-> SetField(obj, k.v.s, m.v), next |-> m.next + 1]
                    ELSE IF t[m.next] = ","
                    THEN ParseMembers(t, m.next + 1, SetField(obj, k.v.s, m.v))
                    ELSE [ok |-> FALSE, v |-> obj, next |-> 0]

\* JSON.parse(stored), line 130: ok is FALSE when it throws.
JSONparse(t) ==
  IF t = <<>> THEN [ok |-> FALSE, v |-> JsNull]
  ELSE IF t[1] = "{"
  THEN IF t = <<"{", "}">> THEN [ok |-> TRUE, v |-> Obj(Undef, Undef, Undef, Undef)]
       ELSE LET r == ParseMembers(t, 2, Obj(Undef, Undef, Undef, Undef))
            IN  IF r.ok /\ r.next = Len(t) + 1 THEN [ok |-> TRUE, v |-> r.v]
                ELSE [ok |-> FALSE, v |-> JsNull]
  ELSE LET r == ParseValue(t, 1)
       IN  IF r.ok /\ r.next = Len(t) + 1 THEN [ok |-> TRUE, v |-> Prim(r.v)]
           ELSE [ok |-> FALSE, v |-> JsNull]


\* ---------------------------------------------------------------- the service
\* What fetch() and response.json() can produce.  kind "throw": fetch rejects
\* (network error, DNS, abort by the 5 s timeout of checkHealth).  ok:
\* response.ok, a 2xx status.  json: the parsed body, "unparsable" when
\* response.json() rejects.
HealthResponses ==
  {[kind |-> "throw", ok |-> FALSE], [kind |-> "resp", ok |-> TRUE], [kind |-> "resp", ok |-> FALSE]}

\* A login body is unparsable, the JSON value null, or an object whose fields
\* success and token are truthy or not; the service at `base` issues the token.
LoginResponses(base) ==
  {[kind |-> "throw", ok |-> FALSE, json |-> "none", success |-> FALSE, token |-> Null]}
  \cup {[kind |-> "resp", ok |-> o, json |-> j, success |-> FALSE, token |-> Null] :
          o \in BOOLEAN, j \in {"unparsable", "null"}}
  \cup {[kind |-> "resp", ok |-> o, json |-> "object", success |-> s, token |-> t] :
          o \in BOOLEAN, s \in BOOLEAN,
          t \in {Null} \cup {Token(base, n) : n \in 1..NumTokenIds}}

\* A stats body: a SoraStats snapshot, an object of another shape, null.
StatsBodies == {"unparsable", "null", "stats1", "stats2", "other"}
StatsResponses ==
  {[kind |-> "throw", ok |-> FALSE, json |-> "none"]}
  \cup {[kind |-> "resp", ok |-> o, json |-> j] : o \in BOOLEAN, j \in StatsBodies}

TokensBodies == {"unparsable", "[]", "tokens1", "other"}
TokensResponses ==
  {[kind |-> "throw", ok |-> FALSE, json |-> "none"]}
  \cup {[kind |-> "resp", ok |-> o, json |-> j] : o \in BOOLEAN, j \in TokensBodies}

\* JavaScript truthiness of a getStats result (line 180, `stats || undefined`).
Truthy(v) == v # "null"

\* ---------------------------------------------------------------- SoraApiClient
\* A faulty variant: the pattern /\/+$/, which removes every trailing slash.
RECURSIVE StripTrailingSlash_All(_)
StripTrailingSlash_All(url) ==
  IF Len(url) > 0 /\ url[Len(url)] = "/"
  THEN StripTrailingSlash_All(SubSeq(url, 1, Len(url) - 1))
  ELSE url

\* url.replace(/\/$/, ''): the pattern matches one slash at the end of input.
StripTrailingSlash(url) ==
  IF Len(url) > 0 /\ url[Len(url)] = "/" THEN SubSeq(url, 1, Len(url) - 1) ELSE url

\* A faulty variant: setBaseUrl also drops the session credential.
setBaseUrl_ClearsToken(url) ==
  /\ baseUrl' = StripTrailingSlash(url)
  /\ token' = Null

\* setBaseUrl(url), lines 41-43.
setBaseUrl(url) ==
  /\ baseUrl' = StripTrailingSlash(url)
  /\ token' = token

\* getHeaders(), lines 64-69: the Authorization header, Null when none is sent.
getHeaders == IF token # Null THEN token ELSE Null

\* The requests fetch() is called with, lines 47-51, 73-76, 86-88, 101-103.
LoginRequest(username, password) ==
  [path |-> PathLogin, base |-> baseUrl, auth |-> Null, username |-> username, password |-> password]
HealthRequest ==
  [path |-> PathHealth, base |-> baseUrl, auth |-> Null, username |-> <<>>, password |-> <<>>]
StatsRequest ==
  [path |-> PathStats, base |-> baseUrl, auth |-> getHeaders, username |-> <<>>, password |-> <<>>]
TokensRequest ==
  [path |-> PathTokens, base |-> baseUrl, auth |-> getHeaders, username |-> <<>>, password |-> <<>>]

\* login, lines 52-61: the value returned for a response.
loginReturns(resp) ==
  /\ resp.kind = "resp"
  /\ resp.json = "object"
  /\ resp.success
  /\ resp.token # Null

\* A faulty variant: the token of the body is stored before success is tested.
loginToken_Eager(resp) ==
  IF resp.kind = "resp" /\ resp.json = "object" THEN resp.token ELSE token

\* login, line 54: this.token after the response.
loginToken(resp) == IF loginReturns(resp) THEN resp.token ELSE token

\* checkHealth, lines 77-80.
checkHealthReturns(resp) == resp.kind = "resp" /\ resp.ok

\* getStats, lines 89-95.
getStatsReturns(resp) ==
  IF resp.kind = "resp" /\ resp.ok /\ resp.json # "unparsable" THEN resp.json ELSE "null"

\* getTokens, lines 104-110.
getTokensReturns(resp) ==
  IF resp.kind = "resp" /\ resp.ok /\ resp.json # "unparsable" THEN resp.json ELSE "[]"

\* A faulty variant: the guard is missing.
hasToken_Always == TRUE

\* getStats / getTokens, lines 84 and 99: the guard `if (!this.token)`.
hasToken == token # Null

\* ---------------------------------------------------------------- soraConfigApi
\* The record getConfig returns when nothing is persisted, lines 132-137; the
\* model writes 'http://localhost:8000' as h and 'admin' as a.
DefaultBaseUrl == <<"h">>
DefaultConfig == Obj(BoolV(FALSE), Str(DefaultBaseUrl), Str(<<"a">>), Str(<<"a">>))

\* The item 'sora_config' of localStorage.  denied: every access throws
\* (storage disabled for the origin).
Item(text) == [denied |-> FALSE, present |-> TRUE, text |-> text]

\* A faulty variant: strings are written without escaping.
saveConfigItem_Raw(config) ==
  Item(<<"{">>
       \o JoinMembers(Member(KeyEnabled, config.enabled)
                      \o <<JsonQuote(KeyBaseUrl) \o <<":", Quote>> \o config.baseUrl.s \o <<Quote>>>>
                      \o <<JsonQuote(KeyAdminUser) \o <<":", Quote>> \o config.adminUser.s \o <<Quote>>>>
                      \o <<JsonQuote(KeyAdminPass) \o <<":", Quote>> \o config.adminPass.s \o <<Quote>>>>)
       \o <<"}">>)

\* saveConfig, line 146: the item after a setItem that does not throw.
saveConfigItem(config) == Item(JSONstringify(config))

\* saveConfig, lines 144-151: the store after the call; throws: setItem throws.
saveConfigStorage(config, throws) == IF throws THEN storage ELSE saveConfigItem(config)

\* saveConfig, lines 147 and 150: the value returned.
saveConfigReturns(throws) == ~throws

\* The outcomes of setItem: it throws when access is denied, and may throw
\* when the quota is exceeded.
SetItemThrows == IF storage.denied THEN {TRUE} ELSE BOOLEAN

\* A faulty variant: an unparsable item yields the default record.
getConfigReturns_DefaultOnError ==
  IF storage.denied THEN DefaultConfig
  ELSE IF ~storage.present \/ storage.text = <<>> THEN DefaultConfig
  ELSE IF JSONparse(storage.text).ok THEN JSONparse(storage.text).v ELSE DefaultConfig

\* getConfig, lines 125-141: getItem throws (catch, null), the item is absent
\* or the empty string (default record), JSON.parse throws (catch, null), or
\* the parsed value is returned.
getConfigReturns ==
  IF storage.denied THEN JsNull
  ELSE IF ~storage.present \/ storage.text = <<>> THEN DefaultConfig
  ELSE JSONparse(storage.text).v

\* The texts found persisted when the program starts: written by an earlier
\* run, by another version of the program, or by hand.
TextCorrupt == <<"{">>
TextNumberUrl == JSONstringify(Obj(BoolV(TRUE), NumV(<<"5">>), Str(<<"a">>), Str(<<"a">>)))
StoreConfigs ==
  {Obj(BoolV(e), Str(u), Str(a), Str(p)) :
     e \in BOOLEAN, u \in Urls, a \in Usernames, p \in ConfigStrings}
PersistedTexts ==
  {<<>>, TextCorrupt, LitNull, TextNumberUrl,
   JSONstringify(Obj(BoolV(TRUE), Str(<<"h">>), Str(<<"a">>), Str(<<"a">>)))}
InitStorages ==
  {[denied |-> d, present |-> FALSE, text |-> <<>>] : d \in BOOLEAN}
  \cup {Item(t) : t \in PersistedTexts}

\* saved: history, the configuration of the last saveConfig that returned
\* true (JsNull before the first).
NoCfgCall == [op |-> "none", ret |-> JsNull, saved |-> JsNull]

\* ---------------------------------------------------------------- testConnection
Bool(b) == IF b THEN "true" ELSE "false"
Via(resp) == IF resp.kind = "throw" THEN "throw" ELSE IF resp.ok THEN "2xx" ELSE "non2xx"

Failure(message) == [NoResult EXCEPT !.ret = "object", !.success = FALSE, !.message = message]
Success(stats) ==
  [NoResult EXCEPT !.ret = "object", !.success = TRUE, !.message = MsgConnected, !.stats = stats]

\* A faulty variant: the early return of line 165 is missing.
testConnectionAfterHealth_NoReturn(t, healthy) ==
  [t EXCEPT !.pc = "login", !.healthy = Bool(healthy),
            !.req = LoginRequest(t.username, t.password),
            !.sent = @ \cup {PathLogin}]

\* Lines 163-169: after `healthy = await checkHealth()`.  An unhealthy
\* service ends the call; otherwise login sends its request (line 47).
testConnectionAfterHealth(t, healthy) ==
  IF ~healthy
  THEN [t EXCEPT !.pc = "done", !.req = NoReq, !.healthy = "false",
                 !.result = Failure(MsgUnavailable)]
  ELSE [t EXCEPT !.pc = "login", !.healthy = "true",
                 !.req = LoginRequest(t.username, t.password),
                 !.sent = @ \cup {PathLogin}]

\* A faulty variant: the early return of line 171 is missing.
testConnectionAfterLogin_NoReturn(t, loggedIn, tok) ==
  IF tok # Null
  THEN [t EXCEPT !.pc = "stats", !.loggedIn = Bool(loggedIn),
                 !.req = [StatsRequest EXCEPT !.auth = tok],
                 !.sent = @ \cup {PathStats}]
  ELSE [t EXCEPT !.pc = "done", !.req = NoReq, !.loggedIn = Bool(loggedIn), !.stats = "null",
                 !.result = Success("undefined")]

\* Lines 169-175: after `loggedIn = await login(...)`, tok being this.token
\* then.  A failed login ends the call; otherwise getStats returns null at
\* line 84 or sends its request with the token (lines 86-88).
testConnectionAfterLogin(t, loggedIn, tok) ==
  IF ~loggedIn
  THEN [t EXCEPT !.pc = "done", !.req = NoReq, !.loggedIn = "false",
                 !.result = Failure(MsgLoginFailed)]
  ELSE IF tok # Null
  THEN [t EXCEPT !.pc = "stats", !.loggedIn = "true",
                 !.req = [StatsRequest EXCEPT !.auth = tok],
                 !.sent = @ \cup {PathStats}]
  ELSE [t EXCEPT !.pc = "done", !.req = NoReq, !.loggedIn = "true", !.stats = "null",
                 !.result = Success("undefined")]

\* A faulty variant: a failed stats call fails the connection test.
testConnectionAfterStats_Required(t, stats) ==
  [t EXCEPT !.pc = "done", !.req = NoReq, !.stats = stats,
            !.result = IF Truthy(stats) THEN Success(stats) ELSE Failure(MsgUnavailable)]

\* Lines 175-181: after `stats = await getStats()`.
testConnectionAfterStats(t, stats) ==
  [t EXCEPT !.pc = "done", !.req = NoReq, !.stats = stats,
            !.result = Success(IF Truthy(stats) THEN stats ELSE "undefined")]

\* ---------------------------------------------------------------- state machine
\* The exported client after construction, lines 38-39 and 120.
InitClient ==
  /\ baseUrl = <<>>
  /\ token = Null
  /\ task = [i \in Tasks |-> IdleTask]
  /\ lastUrl = NoUrl
  /\ loginStored = Null

\* The page before it is mounted (lines 218-230).
\* stale: history, the snapshot held was set before the call that produced
\* the current status started.
InitPage ==
  [mounted |-> FALSE, loading |-> TRUE, config |-> DefaultConfig, saving |-> FALSE,
   status |-> "idle", message |-> "", stats |-> "null", stale |-> FALSE]

\* The client alone: nothing is persisted and the page is not used.
Init ==
  /\ InitClient
  /\ storage = [denied |-> FALSE, present |-> FALSE, text |-> <<>>]
  /\ cfgCall = NoCfgCall
  /\ page = InitPage

\* The program starts with whatever an earlier run left in localStorage.
InitStore ==
  /\ InitClient
  /\ storage \in InitStorages
  /\ cfgCall = NoCfgCall
  /\ page = InitPage

\* A caller invokes soraApiClient.setBaseUrl(url).
CallSetBaseUrl(url) ==
  /\ setBaseUrl(url)
  /\ lastUrl' = url
  /\ UNCHANGED <<task, loginStored, storage, cfgCall, page>>

\* A caller invokes soraApiClient.login(username, password): line 47 sends.
CallLogin(i, username, password) ==
  /\ task[i].pc = "idle"
  /\ task' = [task EXCEPT ![i] =
       [IdleTask EXCEPT !.op = "login", !.pc = "login",
                        !.username = username, !.password = password,
                        !.req = LoginRequest(username, password),
                        !.sent = {PathLogin}]]
  /\ UNCHANGED <<baseUrl, token, lastUrl, loginStored, storage, cfgCall, page>>

\* A caller invokes soraApiClient.checkHealth(): line 73 sends.
CallCheckHealth(i) ==
  /\ task[i].pc = "idle"
  /\ task' = [task EXCEPT ![i] =
       [IdleTask EXCEPT !.op = "checkHealth", !.pc = "health",
                        !.req = HealthRequest, !.sent = {PathHealth}]]
  /\ UNCHANGED <<baseUrl, token, lastUrl, loginStored, storage, cfgCall, page>>

\* A caller invokes soraApiClient.getStats(): line 84 returns null without a
\* request when no token is held, else line 86 sends.
CallGetStats(i) ==
  /\ task[i].pc = "idle"
  /\ task' = [task EXCEPT ![i] =
       IF hasToken
       THEN [IdleTask EXCEPT !.op = "getStats", !.pc = "stats",
                             !.req = StatsRequest, !.sent = {PathStats}]
       ELSE [IdleTask EXCEPT !.op = "getStats", !.pc = "done",
                             !.result = [NoResult EXCEPT !.ret = "null"]]]
  /\ UNCHANGED <<baseUrl, token, lastUrl, loginStored, storage, cfgCall, page>>

\* A caller invokes soraApiClient.getTokens(): lines 99-103.
CallGetTokens(i) ==
  /\ task[i].pc = "idle"
  /\ task' = [task EXCEPT ![i] =
       IF hasToken
       THEN [IdleTask EXCEPT !.op = "getTokens", !.pc = "tokens",
                             !.req = TokensRequest, !.sent = {PathTokens}]
       ELSE [IdleTask EXCEPT !.op = "getTokens", !.pc = "done",
                             !.result = [NoResult EXCEPT !.ret = "[]"]]]
  /\ UNCHANGED <<baseUrl, token, lastUrl, loginStored, storage, cfgCall, page>>

\* soraConfigApi.testConnection(url, username, password), lines 159-163:
\* setBaseUrl, then checkHealth sends its probe (line 73).
TestConnectionStart(i, url, username, password) ==
  /\ task[i].pc = "idle"
  /\ setBaseUrl(url)
  /\ task' = [task EXCEPT ![i] =
       [IdleTask EXCEPT !.op = "testConnection", !.pc = "health",
                        !.username = username, !.password = password,
                        !.req = [HealthRequest EXCEPT !.base = baseUrl'],
                        !.sent = {PathHealth}]]
  /\ lastUrl' = url
  /\ UNCHANGED <<loginStored, storage, cfgCall, page>>

\* The health probe answers: checkHealth returns (lines 77-80) and, in
\* testConnection, the call goes on (lines 164-169).
HealthResponse(i, resp) ==
  /\ task[i].pc = "health"
  /\ task' = [task EXCEPT ![i] =
       IF @.op = "checkHealth"
       THEN [@ EXCEPT !.pc = "done", !.req = NoReq,
                      !.result = [NoResult EXCEPT !.ret = Bool(checkHealthReturns(resp))]]
       ELSE testConnectionAfterHealth(@, checkHealthReturns(resp))]
  /\ UNCHANGED <<baseUrl, token, lastUrl, loginStored, storage, cfgCall, page>>

\* The login request answers: login stores the token and returns (lines
\* 52-61) and, in testConnection, the call goes on (lines 170-175).
LoginResponse(i) ==
  /\ task[i].pc = "login"
  /\ \E resp \in LoginResponses(task[i].req.base) :
       /\ token' = loginToken(resp)
       /\ loginStored' = IF loginReturns(resp) THEN resp.token ELSE loginStored
       /\ task' = [task EXCEPT ![i] =
            IF @.op = "login"
            THEN [@ EXCEPT !.pc = "done", !.req = NoReq, !.loginVia = Via(resp),
                           !.result = [NoResult EXCEPT !.ret = Bool(loginReturns(resp))]]
            ELSE testConnectionAfterLogin([@ EXCEPT !.loginVia = Via(resp)],
                                          loginReturns(resp), token')]
  /\ UNCHANGED <<baseUrl, lastUrl, storage, cfgCall, page>>

\* The stats request answers: getStats returns (lines 89-95) and, in
\* testConnection, the call returns (lines 177-181).
StatsResponse(i, resp) ==
  /\ task[i].pc = "stats"
  /\ task' = [task EXCEPT ![i] =
       IF @.op = "getStats"
       THEN [@ EXCEPT !.pc = "done", !.req = NoReq,
                      !.result = [NoResult EXCEPT !.ret = getStatsReturns(resp)]]
       ELSE testConnectionAfterStats(@, getStatsReturns(resp))]
  /\ UNCHANGED <<baseUrl, token, lastUrl, loginStored, storage, cfgCall, page>>

\* The tokens request answers: getTokens returns (lines 104-110).
TokensResponse(i, resp) ==
  /\ task[i].pc = "tokens"
  /\ task' = [task EXCEPT ![i] =
       [@ EXCEPT !.pc = "done", !.req = NoReq,
                 !.result = [NoResult EXCEPT !.ret = getTokensReturns(resp)]]]
  /\ UNCHANGED <<baseUrl, token, lastUrl, loginStored, storage, cfgCall, page>>

\* The caller takes the result of a finished call.
Return(i) ==
  /\ task[i].pc = "done"
  /\ task' = [task EXCEPT ![i] = IdleTask]
  /\ UNCHANGED <<baseUrl, token, lastUrl, loginStored, storage, cfgCall, page>>

Next ==
  \/ \E url \in Urls : CallSetBaseUrl(url)
  \/ \E i \in Tasks, u \in Usernames, p \in Passwords : CallLogin(i, u, p)
  \/ \E i \in Tasks : CallCheckHealth(i)
  \/ \E i \in Tasks : CallGetStats(i)
  \/ \E i \in Tasks : CallGetTokens(i)
  \/ \E i \in Tasks, url \in Urls, u \in Usernames, p \in Passwords :
       TestConnectionStart(i, url, u, p)
  \/ \E i \in Tasks, resp \in HealthResponses : HealthResponse(i, resp)
  \/ \E i \in Tasks : LoginResponse(i)
  \/ \E i \in Tasks, resp \in StatsResponses : StatsResponse(i, resp)
  \/ \E i \in Tasks, resp \in TokensResponses : TokensResponse(i, resp)
  \/ \E i \in Tasks : Return(i)

Spec == Init /\ [][Next]_vars

\* setBaseUrl as a function of its argument: every string up to MaxUrlLen.
NextUrl == \E url \in AllUrls : CallSetBaseUrl(url)

SpecUrl == Init /\ [][NextUrl]_vars

\* A caller invokes soraConfigApi.saveConfig(config).
CallSaveConfig(config) ==
  \E throws \in SetItemThrows :
    /\ storage' = saveConfigStorage(config, throws)
    /\ cfgCall' = [op |-> "saveConfig",
                   ret |-> Prim(BoolV(saveConfigReturns(throws))),
                   saved |-> IF saveConfigReturns(throws) THEN config ELSE cfgCall.saved]
    /\ UNCHANGED <<baseUrl, token, task, lastUrl, loginStored, page>>

\* A caller invokes soraConfigApi.getConfig().
CallGetConfig ==
  /\ cfgCall' = [cfgCall EXCEPT !.op = "getConfig", !.ret = getConfigReturns]
  /\ UNCHANGED <<baseUrl, token, task, lastUrl, loginStored, storage, page>>

\* The configuration store alone: its two operations from every persisted state.
NextStore ==
  \/ \E config \in StoreConfigs : CallSaveConfig(config)
  \/ CallGetConfig

SpecStore == InitStore /\ [][NextStore]_vars

\* ---------------------------------------------------------------- SoraPage
\* What is typed into the page: the base URLs of two services, one user name
\* and password.
PageUrls == {<<"h">>, <<":">>}
PageStrings == {<<"a">>}

\* The responses of the page runs: each service issues one token and serves
\* one snapshot.
PageLoginResponses(base) == {r \in LoginResponses(base) : r.token.id <= 1}
PageStatsResponses == {r \in StatsResponses : r.json \notin {"stats2", "other"}}

\* The string a request carries for a configuration field.
StrOf(v) == IF v.t = "string" THEN v.s ELSE <<>>

\* The task slot a new call of the page runs in.
HasFreeSlot == \E i \in Tasks : task[i].pc = "idle"
FreeSlot == CHOOSE i \in Tasks : task[i].pc = "idle" /\ \A j \in Tasks : task[j].pc = "idle" => i <= j

\* Line 250: setConnection({ status: 'testing', ... }).
setTesting(pg) == [pg EXCEPT !.status = "testing", !.message = MsgTesting]

\* A faulty variant: the else branch of line 261 is missing.
testConnectionResumes_NoElse(pg, t) ==
  LET done == IF t.caller = "save" THEN [pg EXCEPT !.saving = FALSE] ELSE pg
  IN  IF t.result.success
      THEN [done EXCEPT !.status = "connected", !.message = t.result.message,
                        !.stats = IF t.result.stats # "undefined" THEN t.result.stats ELSE @,
                        !.stale = t.result.stats = "undefined" /\ pg.stats # "null"
                                  /\ t.statsBefore]
      ELSE done

\* Lines 256-264, and line 279 when saveConfig awaited the call: the page
\* after `result = await soraConfigApi.testConnection(...)`.
testConnectionResumes(pg, t) ==
  LET done == IF t.caller = "save" THEN [pg EXCEPT !.saving = FALSE] ELSE pg
  IN  IF t.result.success
      THEN [done EXCEPT !.status = "connected", !.message = t.result.message,
                        !.stats = IF t.result.stats # "undefined" THEN t.result.stats ELSE @,
                        !.stale = t.result.stats = "undefined" /\ pg.stats # "null"
                                  /\ t.statsBefore]
      ELSE [done EXCEPT !.status = "error", !.message = t.result.message,
                        !.stats = "null", !.stale = FALSE]

\* The tasks after task i took a step to u: a finished call frees its slot,
\* and a setStats ends every statsBefore.
TasksAfter(i, u, pg) ==
  [j \in Tasks |->
     LET v == IF j = i THEN (IF u.pc = "done" THEN IdleTask ELSE u) ELSE task[j]
     IN  IF pg.stats # page.stats THEN [v EXCEPT !.statsBefore = FALSE] ELSE v]

\* A faulty variant: each call of testConnection sends its requests to its
\* own base URL.
testConnectionRequest_Own(t) ==
  IF t.pc \in {"login", "stats"} THEN [t EXCEPT !.req.base = StripTrailingSlash(t.url)] ELSE t

\* `${this.baseUrl}/api/login` and `${this.baseUrl}/api/stats`, lines 47 and
\* 86: a request goes to the base URL the shared client holds when it is sent.
testConnectionRequest(t) ==
  IF t.pc \in {"login", "stats"} THEN [t EXCEPT !.req.base = baseUrl] ELSE t

\* A faulty variant: every value has a replace method.
setBaseUrlThrows_Never(v) == FALSE

\* url.replace(...), line 42, throws a TypeError unless url is a string.
setBaseUrlThrows(v) == v.t # "string"

\* testConnection(cfg), lines 249-255 and 159-163, called by the page flow
\* `caller` in slot i: the status becomes testing, setBaseUrl runs and the
\* health probe is sent.  A baseUrl that is not a string has no replace
\* method: setBaseUrl throws and the catch of line 182 returns.
PageTestConnection(i, cfg, caller, pg) ==
  /\ page' = setTesting(pg)
  /\ IF ~setBaseUrlThrows(cfg.baseUrl)
     THEN /\ setBaseUrl(cfg.baseUrl.s)
          /\ lastUrl' = cfg.baseUrl.s
          /\ task' = [task EXCEPT ![i] =
               [IdleTask EXCEPT !.op = "testConnection", !.pc = "health",
                                !.username = StrOf(cfg.adminUser),
                                !.password = StrOf(cfg.adminPass),
                                !.req = [HealthRequest EXCEPT !.base = baseUrl'],
                                !.sent = {PathHealth}, !.caller = caller,
                                !.url = cfg.baseUrl.s,
                                !.statsBefore = pg.stats # "null"]]
     ELSE /\ UNCHANGED <<baseUrl, token, lastUrl>>
          /\ task' = [task EXCEPT ![i] =
               [IdleTask EXCEPT !.op = "testConnection", !.pc = "thrown",
                                !.result = Failure(MsgError), !.caller = caller,
                                !.statsBefore = pg.stats # "null"]]
  /\ UNCHANGED loginStored

\* The page mounts: loadConfig, lines 234-244.
PageMount ==
  /\ ~page.mounted
  /\ cfgCall' = [cfgCall EXCEPT !.op = "getConfig", !.ret = getConfigReturns]
  /\ LET saved == getConfigReturns
         pg == [page EXCEPT !.mounted = TRUE, !.loading = FALSE,
                            !.config = IF TruthyV(saved) THEN saved ELSE @]
     IN  IF TruthyV(saved) /\ TruthyV(saved.enabled)
         THEN PageTestConnection(FreeSlot, saved, "test", pg)
         ELSE page' = pg /\ UNCHANGED clientVars
  /\ UNCHANGED storage

\* The toggle, line 327.
PageToggle ==
  /\ page.mounted
  /\ page' = [page EXCEPT !.config.enabled = BoolV(~TruthyV(@))]
  /\ UNCHANGED <<clientVars, storage, cfgCall>>

\* The three inputs, lines 335, 346 and 356; disabled unless enabled.
PageEditBaseUrl(url) ==
  /\ page.mounted
  /\ TruthyV(page.config.enabled)
  /\ page' = [page EXCEPT !.config.baseUrl = Str(url)]
  /\ UNCHANGED <<clientVars, storage, cfgCall>>

PageEditAdminUser(username) ==
  /\ page.mounted
  /\ TruthyV(page.config.enabled)
  /\ page' = [page EXCEPT !.config.adminUser = Str(username)]
  /\ UNCHANGED <<clientVars, storage, cfgCall>>

PageEditAdminPass(password) ==
  /\ page.mounted
  /\ TruthyV(page.config.enabled)
  /\ page' = [page EXCEPT !.config.adminPass = Str(password)]
  /\ UNCHANGED <<clientVars, storage, cfgCall>>

\* The Test button, lines 364-368.
PageTest ==
  /\ page.mounted
  /\ TruthyV(page.config.enabled)
  /\ page.status # "testing"
  /\ HasFreeSlot
  /\ PageTestConnection(FreeSlot, page.config, "test", page)
  /\ UNCHANGED <<storage, cfgCall>>

\* The Save button, lines 378-382 and 267-280.
PageSave ==
  /\ page.mounted
  /\ ~page.saving
  /\ \E throws \in SetItemThrows :
       /\ storage' = saveConfigStorage(page.config, throws)
       /\ cfgCall' = [op |-> "saveConfig",
                      ret |-> Prim(BoolV(saveConfigReturns(throws))),
                      saved |-> IF saveConfigReturns(throws) THEN page.config ELSE cfgCall.saved]
       /\ IF saveConfigReturns(throws) /\ TruthyV(page.config.enabled)
          THEN /\ HasFreeSlot
               /\ PageTestConnection(FreeSlot, page.config, "save",
                                     [page EXCEPT !.saving = TRUE])
          ELSE UNCHANGED <<clientVars, page>>

\* The refresh button of the statistics panel, lines 408-417 and 283-285.
\* Without a token getStats returns null at line 84 and nothing changes.
PageRefresh ==
  /\ page.mounted
  /\ TruthyV(page.config.enabled)
  /\ page.status = "connected"
  /\ page.stats # "null"
  /\ HasFreeSlot
  /\ hasToken
  /\ task' = [task EXCEPT ![FreeSlot] =
       [IdleTask EXCEPT !.op = "getStats", !.pc = "stats", !.req = StatsRequest,
                        !.sent = {PathStats}, !.caller = "refresh"]]
  /\ UNCHANGED <<baseUrl, token, lastUrl, loginStored, storage, cfgCall, page>>

\* The call whose setBaseUrl threw returns to the page.
PageThrown(i) ==
  /\ task[i].pc = "thrown"
  /\ LET u == [task[i] EXCEPT !.pc = "done"]
         pg == testConnectionResumes(page, u)
     IN  page' = pg /\ task' = TasksAfter(i, u, pg)
  /\ UNCHANGED <<baseUrl, token, lastUrl, loginStored, storage, cfgCall>>

\* The health probe of a page call answers.
PageHealthResponse(i, resp) ==
  /\ task[i].pc = "health"
  /\ LET u == testConnectionRequest(testConnectionAfterHealth(task[i], checkHealthReturns(resp)))
         pg == IF u.pc = "done" THEN testConnectionResumes(page, u) ELSE page
     IN  page' = pg /\ task' = TasksAfter(i, u, pg)
  /\ UNCHANGED <<baseUrl, token, lastUrl, loginStored, storage, cfgCall>>

\* The login request of a page call answers.
PageLoginResponse(i) ==
  /\ task[i].pc = "login"
  /\ \E resp \in PageLoginResponses(task[i].req.base) :
       /\ token' = loginToken(resp)
       /\ loginStored' = IF loginReturns(resp) THEN resp.token ELSE loginStored
       /\ LET u == testConnectionRequest(
                     testConnectionAfterLogin(task[i], loginReturns(resp), token'))
              pg == IF u.pc = "done" THEN testConnectionResumes(page, u) ELSE page
          IN  page' = pg /\ task' = TasksAfter(i, u, pg)
  /\ UNCHANGED <<baseUrl, lastUrl, storage, cfgCall>>

\* refreshStats, lines 286-289: the page after `newStats = await getStats()`.
refreshStatsResumes(pg, newStats) ==
  IF Truthy(newStats) THEN [pg EXCEPT !.stats = newStats, !.stale = FALSE] ELSE pg

\* The stats request of a page call answers.
PageStatsResponse(i, resp) ==
  /\ task[i].pc = "stats"
  /\ LET u == IF task[i].op = "getStats"
              THEN [task[i] EXCEPT !.pc = "done", !.req = NoReq,
                                   !.result = [NoResult EXCEPT !.ret = getStatsReturns(resp)]]
              ELSE testConnectionAfterStats(task[i], getStatsReturns(resp))
         pg == IF task[i].op = "getStats"
               THEN refreshStatsResumes(page, getStatsReturns(resp))
               ELSE testConnectionResumes(page, u)
     IN  page' = pg /\ task' = TasksAfter(i, u, pg)
  /\ UNCHANGED <<baseUrl, token, lastUrl, loginStored, storage, cfgCall>>

NextPage ==
  \/ PageMount
  \/ PageToggle
  \/ \E url \in PageUrls : PageEditBaseUrl(url)
  \/ \E username \in PageStrings : PageEditAdminUser(username)
  \/ \E password \in PageStrings : PageEditAdminPass(password)
  \/ PageTest
  \/ PageSave
  \/ PageRefresh
  \/ \E i \in Tasks : PageThrown(i)
  \/ \E i \in Tasks, resp \in HealthResponses : PageHealthResponse(i, resp)
  \/ \E i \in Tasks : PageLoginResponse(i)
  \/ \E i \in Tasks, resp \in PageStatsResponses : PageStatsResponse(i, resp)

\* The page, from every persisted state.
SpecPage == InitStore /\ [][NextPage]_vars

\* Every request is answered or fails (fetch settles; the probe of checkHealth
\* is aborted after 5 s, line 75), and a pending continuation runs.
Fairness ==
  \A i \in Tasks :
    /\ WF_vars(PageThrown(i))
    /\ WF_vars(\E resp \in HealthResponses : PageHealthResponse(i, resp))
    /\ WF_vars(PageLoginResponse(i))
    /\ WF_vars(\E resp \in PageStatsResponses : PageStatsResponse(i, resp))

\* The page as configured when it loads, its buttons, and the network.
NextLive ==
  \/ PageMount
  \/ PageTest
  \/ PageSave
  \/ PageRefresh
  \/ \E i \in Tasks : PageThrown(i)
  \/ \E i \in Tasks, resp \in HealthResponses : PageHealthResponse(i, resp)
  \/ \E i \in Tasks : PageLoginResponse(i)
  \/ \E i \in Tasks, resp \in PageStatsResponses : PageStatsResponse(i, resp)

SpecLive == InitStore /\ [][NextLive]_vars /\ Fairness

\* ---------------------------------------------------------------- properties
IsTest(i) == task[i].op = "testConnection"

\* C1: a testConnection call whose health probe returned false has requested
\* neither /api/login nor /api/stats, waits on no request, and has returned
\* success = false with the service-unavailable message.
C1_UnhealthyStopsBeforeLogin ==
  \A i \in Tasks :
    (IsTest(i) /\ task[i].healthy = "false") =>
      /\ PathLogin \notin task[i].sent
      /\ PathStats \notin task[i].sent
      /\ task[i].sent = {PathHealth}
      /\ task[i].pc = "done"
      /\ task[i].req = NoReq
      /\ task[i].result.success = FALSE
      /\ task[i].result.message = MsgUnavailable

C1_Witness ==
  \E i \in Tasks :
    /\ IsTest(i) /\ task[i].healthy = "false" /\ task[i].pc = "done"
    /\ token # Null

\* C2: a testConnection call whose health probe returned true and whose login
\* returned false has requested no /api/stats and has returned success =
\* false with the login-failed message and no stats.
C2_FailedLoginStopsBeforeStats ==
  \A i \in Tasks :
    (IsTest(i) /\ task[i].healthy = "true" /\ task[i].loggedIn = "false") =>
      /\ PathStats \notin task[i].sent
      /\ task[i].sent = {PathHealth, PathLogin}
      /\ task[i].pc = "done"
      /\ task[i].req = NoReq
      /\ task[i].result.success = FALSE
      /\ task[i].result.message = MsgLoginFailed
      /\ task[i].result.stats = "undefined"

C2_Witness ==
  \E i \in Tasks :
    /\ IsTest(i) /\ task[i].healthy = "true" /\ task[i].loggedIn = "false"
    /\ task[i].pc = "done" /\ task[i].loginVia = "2xx"
    /\ token # Null

\* C3: a testConnection call whose health probe and login both succeeded
\* returns success = true whatever getStats returned; when getStats returned
\* null the result has no stats.
C3_StatsFailureStillSuccess ==
  \A i \in Tasks :
    (IsTest(i) /\ task[i].loggedIn = "true" /\ task[i].pc = "done") =>
      /\ task[i].healthy = "true"
      /\ task[i].result.success = TRUE
      /\ task[i].result.message = MsgConnected
      /\ task[i].stats = "null" => task[i].result.stats = "undefined"
      /\ task[i].stats # "null" => task[i].result.stats = task[i].stats

C3_Witness ==
  \E i \in Tasks :
    /\ IsTest(i) /\ task[i].loggedIn = "true" /\ task[i].pc = "done"
    /\ PathStats \in task[i].sent
    /\ task[i].stats = "null"
    /\ task[i].result.success = TRUE

\* C4: a request to /api/stats or /api/tokens is in flight only after a login
\* has stored a session credential, and it carries one; a getStats or
\* getTokens call made while no credential is held returns null or the empty
\* list at once and sends nothing.
C4_AuthInFlight ==
  \A i \in Tasks :
    task[i].req.path \in {PathStats, PathTokens} =>
      loginStored # Null /\ task[i].req.auth # Null

C4_NoCredentialStep ==
  \A i \in Tasks :
    /\ (CallGetStats(i) /\ token = Null) =>
         /\ task'[i].pc = "done" /\ task'[i].result.ret = "null"
         /\ task'[i].req = NoReq /\ task'[i].sent = {}
    /\ (CallGetTokens(i) /\ token = Null) =>
         /\ task'[i].pc = "done" /\ task'[i].result.ret = "[]"
         /\ task'[i].req = NoReq /\ task'[i].sent = {}

C4_NoAuthCallWithoutCredential == [](C4_AuthInFlight) /\ [][C4_NoCredentialStep]_vars

C4_Witness ==
  \E i, j \in Tasks :
    /\ task[i].op = "getStats" /\ task[i].pc = "done" /\ task[i].sent = {}
    /\ task[i].result.ret = "null"
    /\ task[j].op = "getTokens" /\ task[j].pc = "done" /\ task[j].sent = {}
    /\ token = Null

\* C5: a login that returns false leaves this.token as it was, and a getStats
\* request carries the token stored by the last login that returned true.
C5_FailedLoginStep ==
  \A i \in Tasks :
    (/\ task[i].pc = "login"
     /\ task'[i].pc = "done"
     /\ \/ task'[i].op = "login" /\ task'[i].result.ret = "false"
        \/ task'[i].op = "testConnection" /\ task'[i].loggedIn = "false")
    => token' = token

C5_StatsCarriesStored ==
  \A i \in Tasks :
    (CallGetStats(i) /\ task'[i].pc = "stats") =>
      /\ task'[i].req.auth = loginStored
      /\ task'[i].req.auth # Null

C5_FailedLoginKeepsCredential ==
  [](token = loginStored) /\ [][C5_FailedLoginStep /\ C5_StatsCarriesStored]_vars

\* A login has failed with a "success: false" answer while a credential was
\* held, and a getStats made afterwards is in flight with that credential.
C5_Witness ==
  \E i, j \in Tasks :
    /\ task[i].op = "login" /\ task[i].pc = "done" /\ task[i].result.ret = "false"
    /\ task[i].loginVia = "2xx"
    /\ task[j].op = "getStats" /\ task[j].pc = "stats"
    /\ task[j].req.auth = token /\ token # Null

\* C6: a login answered by anything but a 2xx response returns false and
\* leaves this.token as it was; a login that returns true has stored the
\* token of its response.
C6_LoginStep ==
  \A i \in Tasks :
    (task[i].pc = "login" /\ task'[i].pc # "login") =>
      LET returnedTrue ==
            \/ task'[i].op = "login" /\ task'[i].result.ret = "true"
            \/ task'[i].op = "testConnection" /\ task'[i].loggedIn = "true"
      IN  /\ task'[i].loginVia # "2xx" => (~returnedTrue /\ token' = token)
          /\ returnedTrue => (token' # Null /\ token' = loginStored')

C6_LoginFalseOnNon2xx == [][C6_LoginStep]_vars

\* C7: a testConnection call whose login request could not reach the service
\* (fetch rejected) does not return the login-failed message.
C7_UnreachableNotLoginFailed ==
  \A i \in Tasks :
    (IsTest(i) /\ task[i].loginVia = "throw") => task[i].result.message # MsgLoginFailed

\* C8: a step that changes the base URL leaves the client without a
\* credential, and no request carries a token to a base URL other than the
\* one whose service issued it.
C8_TokenSentOnlyToIssuer ==
  \A i \in Tasks : task[i].req.auth # Null => task[i].req.auth.issuer = task[i].req.base

C8_BaseUrlChangeDropsCredential ==
  [][baseUrl' # baseUrl => token' = Null]_vars /\ [](C8_TokenSentOnlyToIssuer)

\* C9: setBaseUrl(url) leaves this.token as it was, and a setBaseUrl(url)
\* whose argument is that of the setBaseUrl before it changes nothing.
C9_SetBaseUrlStep ==
  \A url \in Urls :
    /\ CallSetBaseUrl(url) =>
         /\ token' = token
         /\ loginStored' = loginStored
         /\ task' = task
         /\ lastUrl = url => baseUrl' = baseUrl
    /\ (\E i \in Tasks, u \in Usernames, p \in Passwords : TestConnectionStart(i, url, u, p)) =>
         /\ token' = token
         /\ lastUrl = url => baseUrl' = baseUrl

C9_SetBaseUrlFrame == [][C9_SetBaseUrlStep]_vars

\* setBaseUrl has run while a credential issued under another base URL is held.
C9_Witness == token # Null /\ lastUrl # NoUrl /\ token.issuer # baseUrl

\* C10: after setBaseUrl(url) the stored base URL is url without its last
\* character when that is a slash, and url itself otherwise.
C10_StripsOneTrailingSlash ==
  lastUrl # NoUrl =>
    IF Len(lastUrl) > 0 /\ lastUrl[Len(lastUrl)] = "/"
    THEN lastUrl = Append(baseUrl, "/")
    ELSE baseUrl = lastUrl

C10_Witness == lastUrl = <<"h", "/", "/">> /\ baseUrl = <<"h", "/">>

\* C11: a getConfig that follows a saveConfig(config) that returned true, no
\* other successful save in between, returns a record equal to config field
\* by field; a saveConfig that returns false leaves the persisted item as it was.
C11_SaveGetRoundTrip ==
  [][/\ (cfgCall'.op = "getConfig" /\ cfgCall.saved # JsNull)
        => /\ cfgCall'.ret.t = "object"
           /\ cfgCall'.ret.enabled = cfgCall.saved.enabled
           /\ cfgCall'.ret.baseUrl = cfgCall.saved.baseUrl
           /\ cfgCall'.ret.adminUser = cfgCall.saved.adminUser
           /\ cfgCall'.ret.adminPass = cfgCall.saved.adminPass
     /\ (cfgCall'.op = "saveConfig" /\ cfgCall'.ret = Prim(BoolV(FALSE)))
        => /\ storage' = storage
           /\ cfgCall'.saved = cfgCall.saved]_vars

\* getConfig has returned, unchanged, a saved configuration whose password
\* holds a backslash and a quote.
C11_Witness ==
  /\ cfgCall.op = "getConfig"
  /\ cfgCall.saved # JsNull
  /\ cfgCall.saved.adminPass.s = <<Backslash, Quote>>
  /\ cfgCall.ret = cfgCall.saved
  /\ storage.text = JSONstringify(cfgCall.saved)

\* The read fails: getItem throws, or the item cannot be parsed.
C12_ReadFails == storage.denied \/ (storage.present /\ storage.text = TextCorrupt)

\* C12 as stated: getConfig returns the default record when nothing is
\* persisted and returns null only when the read fails.
C12_NullOnlyWhenReadFails ==
  cfgCall.op = "getConfig"
  => /\ (~storage.denied /\ ~storage.present) => cfgCall.ret = DefaultConfig
     /\ cfgCall.ret.t = "null" => C12_ReadFails

\* C12, amended: getConfig returns the default record when no item or the
\* empty string is persisted; it returns null exactly when the read fails or
\* the persisted text is the JSON literal null; otherwise it returns the
\* parsed value.
C12_NullWhenReadFailsOrNullPersisted ==
  cfgCall.op = "getConfig"
  => /\ (~storage.denied /\ (~storage.present \/ storage.text = <<>>))
        => cfgCall.ret = DefaultConfig
     /\ cfgCall.ret.t = "null"
        <=> (C12_ReadFails \/ (~storage.denied /\ storage.present /\ storage.text = LitNull))

\* getConfig has returned null for a persisted text that parses.
C12_Witness ==
  /\ cfgCall.op = "getConfig"
  /\ ~storage.denied /\ storage.present /\ storage.text = LitNull
  /\ cfgCall.ret = JsNull

\* C13: no operation of the client raises, and every transport failure is
\* returned as the failure value: a finished login whose response did not
\* arrive with a 2xx status has returned false, every finished call has
\* returned a value of its kind, and no testConnection result comes from the
\* catch branch of line 182.
C13_TransportFailuresAreData ==
  \A i \in Tasks :
    task[i].pc = "done" =>
      /\ task[i].op = "login" =>
           /\ task[i].result.ret \in {"true", "false"}
           /\ task[i].loginVia # "2xx" => task[i].result.ret = "false"
      /\ task[i].op = "checkHealth" => task[i].result.ret \in {"true", "false"}
      /\ task[i].op = "getStats" => task[i].result.ret \in StatsBodies \ {"unparsable"}
      /\ task[i].op = "getTokens" => task[i].result.ret \in TokensBodies \ {"unparsable"}
      /\ IsTest(i) => task[i].result.message # MsgError

\* C14: payload failures are returned as the failure value: getStats returns
\* null or a snapshot, getTokens a sequence of tokens, and testConnection
\* never succeeds with a stats value that is not a snapshot.
C14_UnexpectedShapeIsNormalized ==
  \A i \in Tasks :
    task[i].pc = "done" =>
      /\ task[i].op = "getStats" => task[i].result.ret \in {"null", "stats1", "stats2"}
      /\ task[i].op = "getTokens" => task[i].result.ret \in {"[]", "tokens1"}
      /\ (IsTest(i) /\ task[i].result.success)
           => task[i].result.stats \in {"undefined", "stats1", "stats2"}

C15_Starts(i) == task[i].pc = "idle" /\ task'[i].pc \in {"health", "thrown"}

C16_RequestsGoToSharedBaseUrl ==
  [][\A i \in Tasks :
       (IsTest(i) /\ task'[i].pc \in {"login", "stats"} /\ task'[i].pc # task[i].pc)
         => /\ task'[i].req.base = baseUrl
            /\ task'[i].req.base = StripTrailingSlash(lastUrl)]_vars

\* An earlier call is in flight with its login request, carrying its user
\* name and password, sent to the base URL of a later call.
C16_Witness ==
  \E i, j \in Tasks :
    /\ i # j
    /\ task[i].op = "testConnection" /\ task[j].op = "testConnection"
    /\ task[i].pc = "login"
    /\ task[i].req.path = PathLogin
    /\ task[i].req.username = task[i].username /\ task[i].req.password = task[i].password
    /\ task[i].req.base # StripTrailingSlash(task[i].url)
    /\ task[j].pc = "health"
    /\ task[i].req.base = StripTrailingSlash(task[j].url)
    /\ lastUrl = task[j].url

\* A call of testConnection is in flight.
InFlight(i) == task[i].op = "testConnection" /\ task[i].pc \in {"health", "login", "stats", "thrown"}

\* C17: the status follows idle -> testing -> {connected | error}: connected
\* and error are entered only from testing, and the status does not leave
\* testing while a call of testConnection is in flight.
C17_StatusOrder ==
  [][/\ (page'.status \in {"connected", "error"} /\ page'.status # page.status)
          => page.status = "testing"
     /\ (page.status = "testing" /\ page'.status # "testing")
          => \A i \in Tasks : ~InFlight(i)']_vars

\* C18: every call of testConnection returns a result to the page, and the
\* status testing is always followed by connected or error.
C18_TestingEnds ==
  /\ \A i \in Tasks : InFlight(i) ~> ~InFlight(i)
  /\ (page.status = "testing") ~> (page.status \in {"connected", "error"})

\* A call that got past the health probe and the login has returned success.
C18_Witness ==
  /\ page.status = "connected"
  /\ page.message = MsgConnected
  /\ page.stats = "stats1"
  /\ \A i \in Tasks : task[i].pc = "idle"

\* C19: while the status is connected the shared client holds a token, and a
\* token, once stored by a login, is never cleared.
C19_ConnectedHoldsCredential ==
  /\ page.status = "connected" => hasToken
  /\ loginStored # Null => token # Null

\* The status is connected and a refresh is in flight with the token, which
\* was issued at another base URL than the current one.
C19_Witness ==
  /\ page.status = "connected"
  /\ token # Null
  /\ token.issuer # baseUrl
  /\ \E i \in Tasks :
       task[i].op = "getStats" /\ task[i].pc = "stats" /\ task[i].req.auth = token

\* C20: while the status is connected, a snapshot the page holds was set
\* during or after the call that produced the status.
C20_SnapshotIsCurrent ==
  (page.status = "connected" /\ page.stats # "null") => ~page.stale

====
